---- MODULE Spec2Model ----
(***************************************************************************)
(* Row-batch transforms of four functions of the vectorized function core: *)
(* dateDiff, arrayConcat, arrayPopFront / arrayPopBack and isNotNull.      *)
(* A block is a sequence of (type, column) entries; one call of            *)
(* executeImpl reads the argument positions and writes the result          *)
(* position, or throws and leaves the block alone.                         *)
(***************************************************************************)
EXTENDS Integers, Sequences, FiniteSets, TLC

VARIABLES block, arguments, result, input_rows_count, function, before, exception, pc

vars == <<block, arguments, result, input_rows_count, function, before, exception, pc>>

(***************************************************************************)
(* Bounds of the model.                                                    *)
(***************************************************************************)
MaxRows == 2
MaxArrLen == 1
MaxArgs == 2
MaxPopLen == 3

(***************************************************************************)
(* Strings whose characters matter (the unit keyword) are sequences of     *)
(* one-character strings; Poco::toLower folds ASCII upper case.            *)
(***************************************************************************)
UpperChars == <<"A","B","C","D","E","F","G","H","I","J","K","L","M",
                "N","O","P","Q","R","S","T","U","V","W","X","Y","Z">>

LowerChars == <<"a","b","c","d","e","f","g","h","i","j","k","l","m",
                "n","o","p","q","r","s","t","u","v","w","x","y","z">>

LowerOfUpper ==
    [c \in {UpperChars[i] : i \in 1..26} |-> LowerChars[CHOOSE i \in 1..26 : UpperChars[i] = c]]

toLowerChar(c) == IF c \in DOMAIN LowerOfUpper THEN LowerOfUpper[c] ELSE c

toLower(s) == [i \in 1..Len(s) |-> toLowerChar(s[i])]

(***************************************************************************)
(* Columns and data types.                                                 *)
(***************************************************************************)
NullPtr == [kind |-> "null"]

ColumnVector(T, data) == [kind |-> "Vector", type |-> T, data |-> data]

ColumnConst(col, n) == [kind |-> "Const", data |-> col, size |-> n]

ColumnNullable(nested, null_map) == [kind |-> "Nullable", nested |-> nested, null_map |-> null_map]

ColumnArray(elem, offsets, data) == [kind |-> "Array", elem |-> elem, offsets |-> offsets, data |-> data]

DataType(name, param) == [name |-> name, param |-> param]

size(col) ==
    CASE col.kind = "Vector" -> Len(col.data)
      [] col.kind = "Const" -> col.size
      [] col.kind = "Nullable" -> Len(col.null_map)
      [] col.kind = "Array" -> Len(col.offsets)
      [] OTHER -> 0

checkAndGetColumn(T, col) == col.kind = "Vector" /\ col.type = T

checkAndGetColumnConst(T, col) ==
    col.kind = "Const" /\ col.data.kind = "Vector" /\ col.data.type = T

getValue(col) == col.data.data[1]

onlyNull(type) == type.name = "Nullable(Nothing)"

createColumnConstWithDefaultValue(type, n) ==
    ColumnConst(ColumnNullable(ColumnVector("Nothing", <<0>>), <<1>>), n)

(***************************************************************************)
(* Exceptions: an error code and the message as the sequence of the parts  *)
(* the code concatenates.                                                  *)
(***************************************************************************)
NoException == [code |-> "none", message |-> <<>>]

Lit(s) == [part |-> "text", text |-> s, chars |-> <<>>]

Ordinal(s) == [part |-> "position", text |-> s, chars |-> <<>>]

Name(s) == [part |-> "function", text |-> s, chars |-> <<>>]

Domain(s) == [part |-> "domain", text |-> s, chars |-> <<>>]

Token(cs) == [part |-> "token", text |-> "", chars |-> cs]

Exception(message, code) == [code |-> code, message |-> message]

Throw(b, e) == [block |-> b, exception |-> e]

Return(b) == [block |-> b, exception |-> NoException]

(***************************************************************************)
(* Time zones and the unit transforms of DateTimeTransforms.h: the number  *)
(* of unit boundaries since the epoch of a Date (UInt16, a day number) or  *)
(* a DateTime (UInt32, seconds), in a time zone of fixed offset.           *)
(***************************************************************************)
TimeZones == {"UTC", "Europe/Moscow"}

DefaultTimeZone == "UTC"

TimeZoneOffset(tz) == IF tz = "Europe/Moscow" THEN 3 * 3600 ELSE 0

toDayNum(enc, v, tz) == IF enc = "UInt16" THEN v ELSE (v + TimeZoneOffset(tz)) \div 86400

toTime(enc, v, tz) == IF enc = "UInt16" THEN v * 86400 - TimeZoneOffset(tz) ELSE v

\* The civil date <<year, month, day>> of a day number (days since 1970-01-01).
civilFromDays(d) ==
    LET z == d + 719468
        era == z \div 146097
        doe == z - era * 146097
        yoe == (doe - doe \div 1460 + doe \div 36524 - doe \div 146096) \div 365
        doy == doe - (365 * yoe + yoe \div 4 - yoe \div 100)
        mp == (5 * doy + 2) \div 153
        day == doy - (153 * mp + 2) \div 5 + 1
        month == IF mp < 10 THEN mp + 3 ELSE mp - 9
        year == yoe + era * 400 + (IF month <= 2 THEN 1 ELSE 0)
    IN <<year, month, day>>

toYear(d) == civilFromDays(d)[1]

toMonth(d) == civilFromDays(d)[2]

\* 1 = Monday ... 7 = Sunday; 1970-01-01 was a Thursday.
toDayOfWeek(d) == ((d + 3) % 7) + 1

Transform_execute(Transform, enc, v, tz) ==
    LET d == toDayNum(enc, v, tz)
        t == toTime(enc, v, tz)
    IN CASE Transform = "ToRelativeYearNumImpl" -> toYear(d)
         [] Transform = "ToRelativeQuarterNumImpl" -> toYear(d) * 4 + (toMonth(d) - 1) \div 3
         [] Transform = "ToRelativeMonthNumImpl" -> toYear(d) * 12 + toMonth(d)
         [] Transform = "ToRelativeWeekNumImpl" -> (d + 8 - toDayOfWeek(d)) \div 7
         [] Transform = "ToRelativeDayNumImpl" -> d
         [] Transform = "ToRelativeHourNumImpl" -> t \div 3600
         [] Transform = "ToRelativeMinuteNumImpl" -> t \div 60
         [] Transform = "ToRelativeSecondNumImpl" -> t

\* The time zone of temporal argument `idx`: the override argument at
\* `tz_idx` when the call has one, else the argument type's own time zone.
extractTimeZoneFromFunctionArguments(b, args, tz_idx, idx) ==
    IF Len(args) = tz_idx
    THEN getValue(b[args[tz_idx]].column)
    ELSE IF b[args[idx]].type.name = "DateTime"
         THEN b[args[idx]].type.param
         ELSE DefaultTimeZone

(***************************************************************************)
(* dateDiff('unit', t1, t2, [timezone])                                    *)
(***************************************************************************)
dateDiff_getName == "dateDiff"

\* A result container of `rows` slots; every slot is assigned before the
\* column is published, the block's columns all having `rows` rows.
ColumnInt64_create(rows) == [i \in 1..rows |-> 0]

calculate_swapped(Transform, ex, x, ey, y, timezone_x, timezone_y) ==
    Transform_execute(Transform, ex, x, timezone_x) - Transform_execute(Transform, ey, y, timezone_y)

calculate(Transform, ex, x, ey, y, timezone_x, timezone_y) ==
    Transform_execute(Transform, ey, y, timezone_y) - Transform_execute(Transform, ex, x, timezone_x)

vector_vector(Transform, x, y, timezone_x, timezone_y, res) ==
    [i \in 1..Len(res) |->
        IF i <= size(x)
        THEN calculate(Transform, x.type, x.data[i], y.type, y.data[i], timezone_x, timezone_y)
        ELSE res[i]]

vector_constant_first_row(Transform, x, ey, y, timezone_x, timezone_y, res) ==
    [i \in 1..Len(res) |->
        IF i <= size(x)
        THEN calculate(Transform, x.type, x.data[1], ey, y, timezone_x, timezone_y)
        ELSE res[i]]

vector_constant(Transform, x, ey, y, timezone_x, timezone_y, res) ==
    [i \in 1..Len(res) |->
        IF i <= size(x)
        THEN calculate(Transform, x.type, x.data[i], ey, y, timezone_x, timezone_y)
        ELSE res[i]]

constant_vector(Transform, ex, x, y, timezone_x, timezone_y, res) ==
    [i \in 1..Len(res) |->
        IF i <= size(y)
        THEN calculate(Transform, ex, x, y.type, y.data[i], timezone_x, timezone_y)
        ELSE res[i]]

Computed(data) == [exception |-> NoException, data |-> data]

Failed(e) == [exception |-> e, data |-> <<>>]

IllegalColumnFor(position) ==
    Exception(<<Lit("Illegal column for "), Ordinal(position), Lit(" argument of function "),
                Name(dateDiff_getName), Lit(", must be "), Domain("Date or DateTime")>>,
              "ILLEGAL_COLUMN")

dispatchForSecondColumn(Transform, x, y, timezone_x, timezone_y, res) ==
    IF checkAndGetColumn("UInt16", y)
    THEN Computed(vector_vector(Transform, x, y, timezone_x, timezone_y, res))
    ELSE IF checkAndGetColumn("UInt32", y)
    THEN Computed(vector_vector(Transform, x, y, timezone_x, timezone_y, res))
    ELSE IF checkAndGetColumnConst("UInt16", y)
    THEN Computed(vector_constant(Transform, x, "UInt16", getValue(y), timezone_x, timezone_y, res))
    ELSE IF checkAndGetColumnConst("UInt32", y)
    THEN Computed(vector_constant(Transform, x, "UInt32", getValue(y), timezone_x, timezone_y, res))
    ELSE Failed(IllegalColumnFor("second"))

dispatchConstForSecondColumn_folding(Transform, ex, x, y, timezone_x, timezone_y, res) ==
    IF checkAndGetColumn("UInt16", y)
    THEN Computed(constant_vector(Transform, ex, x, y, timezone_x, timezone_y, res))
    ELSE IF checkAndGetColumn("UInt32", y)
    THEN Computed(constant_vector(Transform, ex, x, y, timezone_x, timezone_y, res))
    ELSE IF y.kind = "Const" /\ y.data.kind = "Vector" /\ y.data.type \in {"UInt16", "UInt32"}
    THEN Computed([i \in 1..Len(res) |->
            calculate(Transform, ex, x, y.data.type, getValue(y), timezone_x, timezone_y)])
    ELSE Failed(IllegalColumnFor("second"))

dispatchConstForSecondColumn(Transform, ex, x, y, timezone_x, timezone_y, res) ==
    IF checkAndGetColumn("UInt16", y)
    THEN Computed(constant_vector(Transform, ex, x, y, timezone_x, timezone_y, res))
    ELSE IF checkAndGetColumn("UInt32", y)
    THEN Computed(constant_vector(Transform, ex, x, y, timezone_x, timezone_y, res))
    ELSE Failed(IllegalColumnFor("second"))

dispatchForColumns(Transform, x, y, timezone_x, timezone_y, res) ==
    IF checkAndGetColumn("UInt16", x)
    THEN dispatchForSecondColumn(Transform, x, y, timezone_x, timezone_y, res)
    ELSE IF checkAndGetColumn("UInt32", x)
    THEN dispatchForSecondColumn(Transform, x, y, timezone_x, timezone_y, res)
    ELSE IF checkAndGetColumnConst("UInt16", x)
    THEN dispatchConstForSecondColumn(Transform, "UInt16", getValue(x), y, timezone_x, timezone_y, res)
    ELSE IF checkAndGetColumnConst("UInt32", x)
    THEN dispatchConstForSecondColumn(Transform, "UInt32", getValue(x), y, timezone_x, timezone_y, res)
    ELSE Failed(IllegalColumnFor("first"))

\* Unit keywords, as the character sequences the code compares against.
S_year == <<"y","e","a","r">>
S_yy == <<"y","y">>
S_yyyy == <<"y","y","y","y">>
S_quarter == <<"q","u","a","r","t","e","r">>
S_qq == <<"q","q">>
S_q == <<"q">>
S_month == <<"m","o","n","t","h">>
S_mm == <<"m","m">>
S_m == <<"m">>
S_week == <<"w","e","e","k">>
S_wk == <<"w","k">>
S_ww == <<"w","w">>
S_day == <<"d","a","y">>
S_dd == <<"d","d">>
S_d == <<"d">>
S_hour == <<"h","o","u","r">>
S_hh == <<"h","h">>
S_minute == <<"m","i","n","u","t","e">>
S_mi == <<"m","i">>
S_n == <<"n">>
S_second == <<"s","e","c","o","n","d">>
S_ss == <<"s","s">>
S_s == <<"s">>

\* The if-chain of executeImpl over the case-folded unit.
unitTransform_mm_is_minute(unit) ==
    IF unit = S_year \/ unit = S_yy \/ unit = S_yyyy THEN "ToRelativeYearNumImpl"
    ELSE IF unit = S_quarter \/ unit = S_qq \/ unit = S_q THEN "ToRelativeQuarterNumImpl"
    ELSE IF unit = S_month \/ unit = S_m THEN "ToRelativeMonthNumImpl"
    ELSE IF unit = S_week \/ unit = S_wk \/ unit = S_ww THEN "ToRelativeWeekNumImpl"
    ELSE IF unit = S_day \/ unit = S_dd \/ unit = S_d THEN "ToRelativeDayNumImpl"
    ELSE IF unit = S_hour \/ unit = S_hh THEN "ToRelativeHourNumImpl"
    ELSE IF unit = S_minute \/ unit = S_mi \/ unit = S_mm \/ unit = S_n THEN "ToRelativeMinuteNumImpl"
    ELSE IF unit = S_second \/ unit = S_ss \/ unit = S_s THEN "ToRelativeSecondNumImpl"
    ELSE "unsupported"

unitTransform(unit) ==
    IF unit = S_year \/ unit = S_yy \/ unit = S_yyyy THEN "ToRelativeYearNumImpl"
    ELSE IF unit = S_quarter \/ unit = S_qq \/ unit = S_q THEN "ToRelativeQuarterNumImpl"
    ELSE IF unit = S_month \/ unit = S_mm \/ unit = S_m THEN "ToRelativeMonthNumImpl"
    ELSE IF unit = S_week \/ unit = S_wk \/ unit = S_ww THEN "ToRelativeWeekNumImpl"
    ELSE IF unit = S_day \/ unit = S_dd \/ unit = S_d THEN "ToRelativeDayNumImpl"
    ELSE IF unit = S_hour \/ unit = S_hh THEN "ToRelativeHourNumImpl"
    ELSE IF unit = S_minute \/ unit = S_mi \/ unit = S_n THEN "ToRelativeMinuteNumImpl"
    ELSE IF unit = S_second \/ unit = S_ss \/ unit = S_s THEN "ToRelativeSecondNumImpl"
    ELSE "unsupported"

dateDiff_executeImpl_early_publish(b, args, res_pos, rows) ==
    LET unit_column == b[args[1]].column IN
    IF ~checkAndGetColumnConst("String", unit_column)
    THEN Throw(b, Exception(<<Ordinal("First"), Lit(" argument for function "),
                              Name(dateDiff_getName), Lit(" must be "),
                              Domain("constant String")>>, "ILLEGAL_COLUMN"))
    ELSE
    LET unit == toLower(getValue(unit_column))
        x == b[args[2]].column
        y == b[args[3]].column
        res == ColumnInt64_create(rows)
        timezone_x == extractTimeZoneFromFunctionArguments(b, args, 4, 2)
        timezone_y == extractTimeZoneFromFunctionArguments(b, args, 4, 3)
        Transform == unitTransform(unit)
    IN IF Transform = "unsupported"
       THEN Throw(b, Exception(<<Lit("Function "), Name(dateDiff_getName),
                                 Lit(" does not support '"), Token(unit), Lit("' unit")>>,
                               "BAD_ARGUMENTS"))
       ELSE LET r == dispatchForColumns(Transform, x, y, timezone_x, timezone_y, res)
            IN IF r.exception # NoException
               THEN Throw([b EXCEPT ![res_pos].column = ColumnVector("Int64", res)], r.exception)
               ELSE Return([b EXCEPT ![res_pos].column = ColumnVector("Int64", r.data)])

dateDiff_executeImpl(b, args, res_pos, rows) ==
    LET unit_column == b[args[1]].column IN
    IF ~checkAndGetColumnConst("String", unit_column)
    THEN Throw(b, Exception(<<Ordinal("First"), Lit(" argument for function "),
                              Name(dateDiff_getName), Lit(" must be "),
                              Domain("constant String")>>, "ILLEGAL_COLUMN"))
    ELSE
    LET unit == toLower(getValue(unit_column))
        x == b[args[2]].column
        y == b[args[3]].column
        res == ColumnInt64_create(rows)
        timezone_x == extractTimeZoneFromFunctionArguments(b, args, 4, 2)
        timezone_y == extractTimeZoneFromFunctionArguments(b, args, 4, 3)
        Transform == unitTransform(unit)
    IN IF Transform = "unsupported"
       THEN Throw(b, Exception(<<Lit("Function "), Name(dateDiff_getName),
                                 Lit(" does not support '"), Token(unit), Lit("' unit")>>,
                               "BAD_ARGUMENTS"))
       ELSE LET r == dispatchForColumns(Transform, x, y, timezone_x, timezone_y, res)
            IN IF r.exception # NoException
               THEN Throw(b, r.exception)
               ELSE Return([b EXCEPT ![res_pos].column = ColumnVector("Int64", r.data)])

(***************************************************************************)
(* Array columns: cumulative end offsets, one per row, over a flat data    *)
(* sequence.  Sources and sinks of GatherUtils and its algorithms.         *)
(***************************************************************************)
rowBegin(col, r) == IF r = 1 THEN 0 ELSE col.offsets[r - 1]

rowSlice(col, r) == SubSeq(col.data, rowBegin(col, r) + 1, col.offsets[r])

createArraySource(col, is_const, total_rows) ==
    [column |-> col, is_const |-> is_const, total_rows |-> total_rows]

\* The slice a source serves at row r: a constant source serves its single
\* row for every r.
getWhole(source, r) == rowSlice(source.column, IF source.is_const THEN 1 ELSE r)

createArraySink(col, total_rows) ==
    [elem |-> col.elem, offsets |-> col.offsets, data |-> col.data, total_rows |-> total_rows]

writeSlice(slice, sink) == [sink EXCEPT !.data = @ \o slice]

sink_next(sink) == [sink EXCEPT !.offsets = Append(@, Len(sink.data))]

sink_column(sink) == ColumnArray(sink.elem, sink.offsets, sink.data)

RECURSIVE concatSources(_, _, _, _)
concatSources(sources, sink, r, i) ==
    IF i > Len(sources)
    THEN sink
    ELSE concatSources(sources, writeSlice(getWhole(sources[i], r), sink), r, i + 1)

RECURSIVE concatRows(_, _, _)
concatRows(sources, sink, r) ==
    IF r > sink.total_rows
    THEN sink
    ELSE concatRows(sources, sink_next(concatSources(sources, sink, r, 1)), r + 1)

concat(sources, sink) == concatRows(sources, sink, 1)

Min(a, b) == IF a < b THEN a ELSE b

Max(a, b) == IF a < b THEN b ELSE a

getSliceFromLeft(slice, offset, length) ==
    IF offset >= Len(slice)
    THEN <<>>
    ELSE SubSeq(slice, offset + 1, offset + Min(length, Len(slice) - offset))

RECURSIVE sliceUnboundedRows(_, _, _, _)
sliceUnboundedRows(source, sink, offset, r) ==
    IF r > source.total_rows
    THEN sink
    ELSE LET whole == getWhole(source, r)
             k == Min(offset, Len(whole))
         IN sliceUnboundedRows(source,
                sink_next(writeSlice(SubSeq(whole, k + 1, Len(whole)), sink)), offset, r + 1)

sliceFromLeftConstantOffsetUnbounded(source, sink, offset) ==
    sliceUnboundedRows(source, sink, offset, 1)

RECURSIVE sliceBoundedRows(_, _, _, _, _)
sliceBoundedRows(source, sink, offset, length, r) ==
    IF r > source.total_rows
    THEN sink
    ELSE LET whole == getWhole(source, r)
             sz == IF length < 0 THEN length + Len(whole) - offset ELSE length
             written == IF sz > 0 THEN writeSlice(getSliceFromLeft(whole, offset, sz), sink) ELSE sink
         IN sliceBoundedRows(source, sink_next(written), offset, length, r + 1)

sliceFromLeftConstantOffsetBounded(source, sink, offset, length) ==
    sliceBoundedRows(source, sink, offset, length, 1)

\* castColumn to an array type: the elements keep their values under the
\* widened element type.
castColumn(arg, type) ==
    IF arg.column.kind = "Array"
    THEN [arg.column EXCEPT !.elem = type.param]
    ELSE IF arg.column.kind = "Const" /\ arg.column.data.kind = "Array"
    THEN [arg.column EXCEPT !.data.elem = type.param]
    ELSE arg.column

createColumn(type) == ColumnArray(type.param, <<>>, <<>>)

(***************************************************************************)
(* arrayConcat(arr1, ...)                                                  *)
(***************************************************************************)
arrayConcat_getName == "arrayConcat"

arrayConcat_preprocess(b, args, return_type) ==
    [i \in 1..Len(args) |->
        IF b[args[i]].type # return_type
        THEN castColumn(b[args[i]], return_type)
        ELSE b[args[i]].column]

arrayConcat_unwrap(argument_column) ==
    IF argument_column.kind = "Const" THEN argument_column.data ELSE argument_column

arrayConcat_sources_skip_first(preprocessed_columns, rows) ==
    [i \in 1..(Len(preprocessed_columns) - 1) |->
        createArraySource(arrayConcat_unwrap(preprocessed_columns[i + 1]),
                          preprocessed_columns[i + 1].kind = "Const", rows)]

arrayConcat_sources(preprocessed_columns, rows) ==
    [i \in 1..Len(preprocessed_columns) |->
        createArraySource(arrayConcat_unwrap(preprocessed_columns[i]),
                          preprocessed_columns[i].kind = "Const", rows)]

arrayConcat_executeImpl(b, args, res_pos, rows) ==
    LET return_type == b[res_pos].type IN
    IF onlyNull(return_type)
    THEN Return([b EXCEPT ![res_pos].column = createColumnConstWithDefaultValue(return_type, rows)])
    ELSE
    LET result_column == createColumn(return_type)
        preprocessed_columns == arrayConcat_preprocess(b, args, return_type)
    IN IF \E i \in 1..Len(args) : arrayConcat_unwrap(preprocessed_columns[i]).kind # "Array"
       THEN Throw(b, Exception(<<Lit("Arguments for function "), Name(arrayConcat_getName),
                                 Lit(" must be arrays.")>>, "LOGICAL_ERROR"))
       ELSE LET sources == arrayConcat_sources(preprocessed_columns, rows)
                sink == createArraySink(result_column, rows)
            IN Return([b EXCEPT ![res_pos].column = sink_column(concat(sources, sink))])

(***************************************************************************)
(* arrayPopFront(arr), arrayPopBack(arr): FunctionArrayPop(pop_front, name)*)
(***************************************************************************)
arrayPop_slice_from_one(pop_front, source, sink) ==
    IF pop_front
    THEN sliceFromLeftConstantOffsetUnbounded(source, sink, 1)
    ELSE sliceFromLeftConstantOffsetBounded(source, sink, 1, -1)

arrayPop_slice(pop_front, source, sink) ==
    IF pop_front
    THEN sliceFromLeftConstantOffsetUnbounded(source, sink, 1)
    ELSE sliceFromLeftConstantOffsetBounded(source, sink, 0, -1)

arrayPop_executeImpl(f, b, args, res_pos, rows) ==
    LET return_type == b[res_pos].type IN
    IF onlyNull(return_type)
    THEN Return([b EXCEPT ![res_pos].column = createColumnConstWithDefaultValue(return_type, rows)])
    ELSE
    LET result_column == createColumn(return_type)
        array_column == b[args[1]].column
        sz == size(array_column)
    IN IF array_column.kind # "Array"
       THEN Throw(b, Exception(<<Ordinal("First"), Lit(" arguments for function "), Name(f.name),
                                 Lit(" must be array.")>>, "LOGICAL_ERROR"))
       ELSE LET source == createArraySource(array_column, FALSE, sz)
                sink == createArraySink(result_column, sz)
            IN Return([b EXCEPT ![res_pos].column = sink_column(arrayPop_slice(f.pop_front, source, sink))])

(***************************************************************************)
(* isNotNull(x)                                                            *)
(***************************************************************************)
isNotNull_getName == "isNotNull"

isNotNull_negate_copy(src_data, rows) == [i \in 1..rows |-> src_data[i]]

isNotNull_negate(src_data, rows) == [i \in 1..rows |-> IF src_data[i] = 0 THEN 1 ELSE 0]

isNotNull_executeImpl(b, args, res_pos, rows) ==
    LET elem == b[args[1]] IN
    IF elem.column.kind = "Nullable"
    THEN Return([b EXCEPT ![res_pos].column =
                    ColumnVector("UInt8", isNotNull_negate(elem.column.null_map, rows))])
    ELSE Return([b EXCEPT ![res_pos].column =
                    ColumnConst(ColumnVector("UInt8", <<1>>), size(elem.column))])

(***************************************************************************)
(* The blocks the functions are called on.                                 *)
(***************************************************************************)
Entry(type, column) == [type |-> type, column |-> column]

ResultEntry(type) == Entry(type, NullPtr)

UnitInputs ==
    { S_year, S_yy, S_yyyy, S_quarter, S_qq, S_q, S_month, S_mm, S_m, S_week, S_wk, S_ww,
      S_day, S_dd, S_d, S_hour, S_hh, S_minute, S_mi, S_n, S_second, S_ss, S_s,
      <<"Y","E","A","R">>, <<"Q","q">>, <<"M","M">>, <<"W","k">>, <<"D">>, <<"H","h">>,
      <<"N">>, <<"S","e","c","o","n","d">>,
      <<"f","o","o">>, <<"F","o","o">>, <<"y","e","a","r","s">>, <<>> }

UnitEntries(rows) ==
    { Entry(DataType("String", ""), ColumnConst(ColumnVector("String", <<u>>), rows)) : u \in UnitInputs }
    \cup { Entry(DataType("String", ""), ColumnVector("String", [i \in 1..rows |-> S_day])) }

\* 2020-01-31 and 2020-02-01 as day numbers.
DateValues == {18292, 18293}

\* 2019-12-31 21:00:00 UTC (2020-01-01 00:00:00 in Moscow) and 2020-02-01 00:00:00 UTC.
DateTimeValues == {1577826000, 1580515200}

VectorsAndConstants(T, values, rows) ==
    { ColumnVector(T, d) : d \in [1..rows -> values] }
    \cup { ColumnConst(ColumnVector(T, <<v>>), rows) : v \in values }

TemporalEntries(rows) ==
    { Entry(DataType("Date", ""), c) : c \in VectorsAndConstants("UInt16", DateValues, rows) }
    \cup { Entry(DataType("DateTime", tz), c) :
             tz \in TimeZones, c \in VectorsAndConstants("UInt32", DateTimeValues, rows) }
    \cup { Entry(DataType("Date", ""), ColumnVector("UInt8", [i \in 1..rows |-> 0])) }

TimeZoneEntry(tz, rows) ==
    Entry(DataType("String", ""), ColumnConst(ColumnVector("String", <<tz>>), rows))

InitDateDiff ==
    /\ function = [name |-> dateDiff_getName, pop_front |-> FALSE]
    /\ input_rows_count \in 0..MaxRows
    /\ \E u \in UnitEntries(input_rows_count), xe \in TemporalEntries(input_rows_count),
          ye \in TemporalEntries(input_rows_count) :
          \/ /\ block = <<u, xe, ye, ResultEntry(DataType("Int64", ""))>>
             /\ arguments = <<1, 2, 3>>
          \/ \E tz \in TimeZones :
             /\ block = <<u, xe, ye, TimeZoneEntry(tz, input_rows_count),
                          ResultEntry(DataType("Int64", ""))>>
             /\ arguments = <<1, 2, 3, 4>>
    /\ result = Len(block)
    /\ before = block
    /\ exception = NoException
    /\ pc = "ready"

\* Element j of row r of argument a: every element of a block is distinct.
Label(a, r, j) == 100 * (a - 1) + 10 * (r - 1) + j

RECURSIVE cumulative(_, _)
cumulative(lens, r) == IF r = 0 THEN 0 ELSE cumulative(lens, r - 1) + lens[r]

RECURSIVE flatten(_, _, _)
flatten(a, lens, r) ==
    IF r = 0 THEN <<>> ELSE flatten(a, lens, r - 1) \o [j \in 1..lens[r] |-> Label(a, r, j)]

LabelledArray(elem, a, lens) ==
    ColumnArray(elem, [r \in 1..Len(lens) |-> cumulative(lens, r)], flatten(a, lens, Len(lens)))

ElemTypes == {"UInt16", "UInt32"}

leastSupertype(elems) == IF "UInt32" \in elems THEN "UInt32" ELSE "UInt16"

\* What the caller may pass as one array argument: a full array column, a
\* constant array, or a column that is no array although its type says so.
ArrayChoices(rows, maxlen) ==
    [shape : {"vector"}, elem : ElemTypes, lens : [1..rows -> 0..maxlen]]
    \cup [shape : {"const"}, elem : ElemTypes, lens : [1..1 -> 0..maxlen]]
    \cup [shape : {"broken"}, elem : {"UInt16"}, lens : {<<>>}]

ArrayEntry(choice, a, rows, return_type) ==
    CASE choice.shape = "vector" ->
            Entry(DataType("Array", choice.elem), LabelledArray(choice.elem, a, choice.lens))
      [] choice.shape = "const" ->
            Entry(DataType("Array", choice.elem),
                  ColumnConst(LabelledArray(choice.elem, a, choice.lens), rows))
      [] OTHER ->
            Entry(return_type, ColumnVector("UInt8", [i \in 1..rows |-> 0]))

InitArrayConcat ==
    /\ function = [name |-> arrayConcat_getName, pop_front |-> FALSE]
    /\ input_rows_count \in 0..MaxRows
    /\ \E n \in 1..MaxArgs :
       \E choices \in [1..n -> ArrayChoices(input_rows_count, MaxArrLen)] :
          LET return_type ==
                  DataType("Array", leastSupertype({choices[a].elem : a \in 1..n}))
          IN /\ block = [a \in 1..(n + 1) |->
                            IF a <= n
                            THEN ArrayEntry(choices[a], a, input_rows_count, return_type)
                            ELSE ResultEntry(return_type)]
             /\ arguments = [a \in 1..n |-> a]
    /\ result = Len(block)
    /\ before = block
    /\ exception = NoException
    /\ pc = "ready"

ArrayPopFunctions ==
    { [name |-> "arrayPopFront", pop_front |-> TRUE], [name |-> "arrayPopBack", pop_front |-> FALSE] }

InitArrayPop ==
    /\ function \in ArrayPopFunctions
    /\ input_rows_count \in 0..MaxRows
    /\ \/ \E choice \in { c \in ArrayChoices(input_rows_count, MaxPopLen) : c.shape # "const" } :
             LET arg == ArrayEntry(choice, 1, input_rows_count, DataType("Array", choice.elem))
             IN block = <<arg, ResultEntry(arg.type)>>
       \/ block = << Entry(DataType("Nullable(Nothing)", ""),
                           createColumnConstWithDefaultValue(DataType("Nullable(Nothing)", ""),
                                                             input_rows_count)),
                     ResultEntry(DataType("Nullable(Nothing)", "")) >>
    /\ arguments = <<1>>
    /\ result = 2
    /\ before = block
    /\ exception = NoException
    /\ pc = "ready"

ValueInputs == {0, 7, 255}

InitIsNotNull ==
    /\ function = [name |-> isNotNull_getName, pop_front |-> FALSE]
    /\ input_rows_count \in 0..MaxRows
    /\ \E d \in [1..input_rows_count -> ValueInputs] :
          \/ block = << Entry(DataType("UInt8", ""), ColumnVector("UInt8", d)),
                        ResultEntry(DataType("UInt8", "")) >>
          \/ \E m \in [1..input_rows_count -> {0, 1}] :
                block = << Entry(DataType("Nullable(UInt8)", ""),
                                 ColumnNullable(ColumnVector("UInt8", d), m)),
                           ResultEntry(DataType("UInt8", "")) >>
    /\ arguments = <<1>>
    /\ result = 2
    /\ before = block
    /\ exception = NoException
    /\ pc = "ready"

Init == InitDateDiff \/ InitArrayConcat \/ InitArrayPop \/ InitIsNotNull

(***************************************************************************)
(* One call of a function's executeImpl on the block.                      *)
(***************************************************************************)
Finish(r) ==
    /\ block' = r.block
    /\ exception' = r.exception
    /\ pc' = "done"
    /\ UNCHANGED <<arguments, result, input_rows_count, function, before>>

DateDiff ==
    /\ pc = "ready"
    /\ function.name = dateDiff_getName
    /\ Finish(dateDiff_executeImpl(block, arguments, result, input_rows_count))

ArrayConcat ==
    /\ pc = "ready"
    /\ function.name = arrayConcat_getName
    /\ Finish(arrayConcat_executeImpl(block, arguments, result, input_rows_count))

ArrayPop ==
    /\ pc = "ready"
    /\ function \in ArrayPopFunctions
    /\ Finish(arrayPop_executeImpl(function, block, arguments, result, input_rows_count))

IsNotNull ==
    /\ pc = "ready"
    /\ function.name = isNotNull_getName
    /\ Finish(isNotNull_executeImpl(block, arguments, result, input_rows_count))

Next == DateDiff \/ ArrayConcat \/ ArrayPop \/ IsNotNull

Spec == Init /\ [][Next]_vars

SpecDateDiff == InitDateDiff /\ [][DateDiff]_vars

SpecArrayConcat == InitArrayConcat /\ [][ArrayConcat]_vars

SpecArrayPop == InitArrayPop /\ [][ArrayPop]_vars

SpecIsNotNull == InitIsNotNull /\ [][IsNotNull]_vars

(***************************************************************************)
(* Properties.                                                             *)
(***************************************************************************)
Called(name) == pc = "done" /\ function.name = name

\* The alias groups of the unit keyword and the unit each stands for.
UnitGroups ==
    { [names |-> {S_year, S_yy, S_yyyy}, transform |-> "ToRelativeYearNumImpl"],
      [names |-> {S_quarter, S_qq, S_q}, transform |-> "ToRelativeQuarterNumImpl"],
      [names |-> {S_month, S_mm, S_m}, transform |-> "ToRelativeMonthNumImpl"],
      [names |-> {S_week, S_wk, S_ww}, transform |-> "ToRelativeWeekNumImpl"],
      [names |-> {S_day, S_dd, S_d}, transform |-> "ToRelativeDayNumImpl"],
      [names |-> {S_hour, S_hh}, transform |-> "ToRelativeHourNumImpl"],
      [names |-> {S_minute, S_mi, S_n}, transform |-> "ToRelativeMinuteNumImpl"],
      [names |-> {S_second, S_ss, S_s}, transform |-> "ToRelativeSecondNumImpl"] }

ConstantString(col) == col.kind = "Const" /\ col.data.kind = "Vector" /\ col.data.type = "String"

UnitArgument == before[arguments[1]].column

UnitSupplied == UnitArgument.data.data[1]

UnitRecognized == \E g \in UnitGroups : toLower(UnitSupplied) \in g.names

UnitOfCall == (CHOOSE g \in UnitGroups : toLower(UnitSupplied) \in g.names).transform

IsTemporalVector(col) == col.kind = "Vector" /\ col.type \in {"UInt16", "UInt32"}

IsTemporalConstant(col) ==
    col.kind = "Const" /\ col.data.kind = "Vector" /\ col.data.type \in {"UInt16", "UInt32"}

EncodingOf(col) == IF col.kind = "Const" THEN col.data.type ELSE col.type

ValueAt(col, i) == IF col.kind = "Const" THEN col.data.data[1] ELSE col.data[i]

ArgX == before[arguments[2]].column

ArgY == before[arguments[3]].column

ResolvedTimeZone(idx) ==
    IF Len(arguments) = 4
    THEN before[arguments[4]].column.data.data[1]
    ELSE IF before[arguments[idx]].type.name = "DateTime"
         THEN before[arguments[idx]].type.param
         ELSE DefaultTimeZone

UnitCount(col, i, idx) == Transform_execute(UnitOfCall, EncodingOf(col), ValueAt(col, i), ResolvedTimeZone(idx))

WellFormedDateDiffCall ==
    /\ Called("dateDiff")
    /\ ConstantString(UnitArgument)
    /\ UnitRecognized
    /\ \/ IsTemporalVector(ArgX) /\ IsTemporalVector(ArgY)
       \/ IsTemporalVector(ArgX) /\ IsTemporalConstant(ArgY)
       \/ IsTemporalConstant(ArgX) /\ IsTemporalVector(ArgY)

ResultColumn == block[result].column

SpellingsOf == [g \in UnitGroups |-> {v \in UnitInputs : toLower(v) \in g.names}]

WithUnit(b, u) == [b EXCEPT ![arguments[1]].column.data.data = <<u>>]

C4_AliasEquivalence ==
    (Called("dateDiff") /\ ConstantString(UnitArgument)) =>
        \A g \in UnitGroups :
            UnitSupplied \in SpellingsOf[g] =>
                \A v \in SpellingsOf[g] :
                    LET other == dateDiff_executeImpl(WithUnit(before, v), arguments, result,
                                                      input_rows_count)
                    IN /\ other.exception = exception
                       /\ other.block[result].column = ResultColumn

C4_Witness ==
    /\ WellFormedDateDiffCall
    /\ exception = NoException
    /\ UnitSupplied = <<"M","M">>
    /\ input_rows_count = 2
    /\ ResultColumn.data[1] # 0
    /\ \E g \in UnitGroups : UnitSupplied \in SpellingsOf[g] /\ Cardinality(SpellingsOf[g]) >= 4

\* C5: with one time zone resolved for both temporal arguments, exchanging
\* them negates every row of the result, and equal arguments give 0.
SameTimeZone == ResolvedTimeZone(2) = ResolvedTimeZone(3)

Exchanged(b) == [b EXCEPT ![arguments[2]] = b[arguments[3]], ![arguments[3]] = b[arguments[2]]]

MessageHas(part) == \E k \in 1..Len(exception.message) : exception.message[k] = part

C6_BadUnitAsSupplied ==
    (Called("dateDiff") /\ ConstantString(UnitArgument) /\ ~UnitRecognized) =>
        /\ exception.code = "BAD_ARGUMENTS"
        /\ MessageHas(Token(UnitSupplied))

\* C7: every error names the function and the offending argument position;
\* a column of no known encoding fails dateDiff with ILLEGAL_COLUMN naming
\* the position and the expected domain, a column that is no array fails
\* arrayConcat and the array pop functions with LOGICAL_ERROR naming the
\* position.
NamesFunction == MessageHas(Name(function.name))

NamesPosition == \E k \in 1..Len(exception.message) : exception.message[k].part = "position"

NamesDomain == \E k \in 1..Len(exception.message) : exception.message[k].part = "domain"

C7_ErrorsNameFunctionAndPosition ==
    (pc = "done" /\ exception # NoException) =>
        /\ NamesFunction
        /\ NamesPosition
        /\ exception.code = "ILLEGAL_COLUMN" => NamesDomain
        /\ function.name # dateDiff_getName => exception.code = "LOGICAL_ERROR"

\* C8: a call either fails and leaves the whole block as it was, or
\* succeeds, leaves every entry but the result's column as it was and puts
\* at the result position one column of input_rows_count rows that is a
\* vector (array columns included) or a constant.
C8_AllOrNothing ==
    pc = "done" =>
        IF exception # NoException
        THEN block = before
        ELSE /\ Len(block) = Len(before)
             /\ \A p \in 1..Len(block) : p # result => block[p] = before[p]
             /\ block[result].type = before[result].type
             /\ ResultColumn.kind \in {"Vector", "Array", "Const"}
             /\ size(ResultColumn) = input_rows_count

C8_Witness ==
    /\ Called("dateDiff")
    /\ ConstantString(UnitArgument)
    /\ UnitRecognized
    /\ input_rows_count = 2
    /\ exception.code = "ILLEGAL_COLUMN"
    /\ block = before
    /\ ResultColumn = NullPtr

\* C10: with both temporal arguments constant columns dateDiff never
\* computes: the call fails and writes no result, and when the unit
\* argument is a recognized constant string the failure is ILLEGAL_COLUMN
\* about the second argument.
ConstantByConstant == IsTemporalConstant(ArgX) /\ IsTemporalConstant(ArgY)

C10_NoConstantByConstantPath ==
    (Called("dateDiff") /\ ConstantByConstant) =>
        /\ exception # NoException
        /\ block = before
        /\ (ConstantString(UnitArgument) /\ UnitRecognized) =>
              /\ exception.code = "ILLEGAL_COLUMN"
              /\ MessageHas(Ordinal("second"))

C10_Witness ==
    /\ Called("dateDiff")
    /\ ConstantByConstant
    /\ ConstantString(UnitArgument)
    /\ UnitRecognized
    /\ input_rows_count = 2
    /\ exception.code = "ILLEGAL_COLUMN"
    /\ MessageHas(Ordinal("second"))
    /\ ResultColumn = NullPtr

\* C2: over array arguments (full or constant) arrayConcat succeeds and
\* row r of its result is argument 1's row r followed by argument 2's row r
\* and so on, a constant argument giving its one slice for every row; the
\* row's length is the sum of the operands' lengths, and a single full
\* array argument comes back unchanged.
IsArrayColumn(col) == col.kind = "Array"

IsConstantArray(col) == col.kind = "Const" /\ col.data.kind = "Array"

ArgumentRow(a, r) ==
    LET col == before[arguments[a]].column
    IN IF col.kind = "Const" THEN rowSlice(col.data, 1) ELSE rowSlice(col, r)

RECURSIVE RowsInOrder(_, _)
RowsInOrder(n, r) == IF n = 0 THEN <<>> ELSE RowsInOrder(n - 1, r) \o ArgumentRow(n, r)

RECURSIVE SumOfLengths(_, _)
SumOfLengths(n, r) == IF n = 0 THEN 0 ELSE SumOfLengths(n - 1, r) + Len(ArgumentRow(n, r))

ArrayArgumentsOnly ==
    \A a \in 1..Len(arguments) :
        IsArrayColumn(before[arguments[a]].column) \/ IsConstantArray(before[arguments[a]].column)

C2_ConcatInArgumentOrder ==
    (Called("arrayConcat") /\ ArrayArgumentsOnly) =>
        /\ exception = NoException
        /\ IsArrayColumn(ResultColumn)
        /\ ResultColumn.elem = before[result].type.param
        /\ Len(ResultColumn.offsets) = input_rows_count
        /\ \A r \in 1..input_rows_count :
              /\ rowSlice(ResultColumn, r) = RowsInOrder(Len(arguments), r)
              /\ Len(rowSlice(ResultColumn, r)) = SumOfLengths(Len(arguments), r)
        /\ (Len(arguments) = 1 /\ IsArrayColumn(before[arguments[1]].column))
              => ResultColumn = before[arguments[1]].column

C2_Witness ==
    /\ Called("arrayConcat")
    /\ exception = NoException
    /\ Len(arguments) = 2
    /\ input_rows_count = 2
    /\ IsConstantArray(before[arguments[1]].column)
    /\ IsArrayColumn(before[arguments[2]].column)
    /\ before[arguments[1]].type # before[result].type
    /\ Len(rowSlice(ResultColumn, 1)) = 2
    /\ Len(rowSlice(ResultColumn, 2)) = 1

\* C3: on an array column arrayPopFront gives for a row of n elements its
\* elements [min(1,n), n) and arrayPopBack its elements [0, max(n-1,0)); an
\* empty row gives an empty row and no error, and the result has as many
\* rows as the input.
PopArgument == before[arguments[1]].column

C3_PopSlices ==
    (pc = "done" /\ function \in ArrayPopFunctions /\ IsArrayColumn(PopArgument)) =>
        /\ exception = NoException
        /\ IsArrayColumn(ResultColumn)
        /\ Len(ResultColumn.offsets) = Len(PopArgument.offsets)
        /\ \A r \in 1..Len(PopArgument.offsets) :
              LET row == rowSlice(PopArgument, r)
                  n == Len(row)
              IN /\ function.pop_front =>
                        rowSlice(ResultColumn, r) = SubSeq(row, Min(1, n) + 1, n)
                 /\ ~function.pop_front =>
                        rowSlice(ResultColumn, r) = SubSeq(row, 1, Max(n - 1, 0))
                 /\ n = 0 => rowSlice(ResultColumn, r) = <<>>

C3_Witness ==
    /\ pc = "done"
    /\ ~function.pop_front
    /\ IsArrayColumn(PopArgument)
    /\ input_rows_count = 2
    /\ rowSlice(PopArgument, 1) = <<>>
    /\ rowSlice(PopArgument, 2) = <<11, 12, 13>>
    /\ rowSlice(ResultColumn, 1) = <<>>
    /\ rowSlice(ResultColumn, 2) = <<11, 12>>

\* C9: isNotNull of a Nullable column is, row by row, 1 where the null map
\* holds 0 and 0 elsewhere; of any other column it is the constant 1; the
\* result is never Nullable.
NotNullArgument == before[arguments[1]].column

C9_IsNotNullReadsNullMap ==
    Called("isNotNull") =>
        /\ exception = NoException
        /\ ResultColumn.kind # "Nullable"
        /\ IF NotNullArgument.kind = "Nullable"
           THEN /\ ResultColumn.kind = "Vector"
                /\ ResultColumn.type = "UInt8"
                /\ Len(ResultColumn.data) = input_rows_count
                /\ \A i \in 1..input_rows_count :
                      /\ NotNullArgument.null_map[i] = 0 => ResultColumn.data[i] = 1
                      /\ NotNullArgument.null_map[i] # 0 => ResultColumn.data[i] = 0
           ELSE ResultColumn = ColumnConst(ColumnVector("UInt8", <<1>>), input_rows_count)

C9_Witness ==
    /\ Called("isNotNull")
    /\ NotNullArgument.kind = "Nullable"
    /\ NotNullArgument.null_map = <<1, 0>>
    /\ ResultColumn.data = <<0, 1>>

====
